---- MODULE Spec2Model ----
(***************************************************************************)
(* Model of the configuration functions of hadoop_g5k/util.py: the XML     *)
(* property store (create_xml_file, read_param_in_xml_file,                *)
(* replace_in_xml_file) and the flat property store                        *)
(* (read_param_in_props_file, write_in_props_file).                        *)
(*                                                                         *)
(* A file is a sequence of lines and a line is a non-empty sequence of     *)
(* tokens.  A token is an indivisible piece of text: a tag, a comment      *)
(* delimiter, a word, or one whitespace character.  The newline token can  *)
(* only be the last token of a line; every line but the last one of a file *)
(* ends with it.  A string (a key, a value) is a sequence of tokens, so    *)
(* that the empty string is <<>>.                                          *)
(***************************************************************************)
EXTENDS Integers, Sequences, FiniteSets, TLC

VARIABLES fmt,        \* "xml" or "flat": the format of the file at the path
          file,       \* the content of the file at the path f
          orig,       \* history: the content of the file before any call
          proc,       \* per caller: position in the code and local variables
          overlap,    \* history: a write_one call started while another ran
          lastCopier  \* history: the caller of the last shutil.copyfile, or 0

vars == <<fmt, file, orig, proc, overlap, lastCopier>>

(***************************************************************************)
(* Bounds of the model.                                                    *)
(***************************************************************************)
MaxBlocks == 2     \* XML fixtures: blocks between the root tags
MaxLines == 2      \* flat fixtures: lines of the file
MaxConcLines == 1  \* fixtures of the two-caller specification: properties
NumVals == 3       \* how many values of ValPool are passed to write_one

(***************************************************************************)
(* Tokens.                                                                 *)
(***************************************************************************)
NL == "\n"
TAB == "\t"
SP == " "
HASH == "#"
OpenRoot == "<configuration>"
CloseRoot == "</configuration>"
EmptyRoot == "<configuration/>"
OpenProp == "<property>"
CloseProp == "</property>"
OpenName == "<name>"
CloseName == "</name>"
OpenValue == "<value>"
CloseValue == "</value>"
OpenComment == "<!--"
CloseComment == "-->"

OpenTags == {OpenRoot, OpenProp, OpenName, OpenValue}
CloseTags == {CloseRoot, CloseProp, CloseName, CloseValue}
Spaces == {NL, TAB, SP}

\* the closing tag of an opening tag
CloseOf(t) ==
    CASE t = OpenRoot -> CloseRoot
      [] t = OpenProp -> CloseProp
      [] t = OpenName -> CloseName
      [] OTHER -> CloseValue

\* the tokens whose text holds the character '<'
HasLt(t) == t \in OpenTags \cup CloseTags \cup {EmptyRoot, OpenComment}

(***************************************************************************)
(* Text files: readline, write, and the whole content as one string.       *)
(***************************************************************************)
\* file.readline() at line number i: the empty string at end of file
ReadLine(buf, i) == IF i <= Len(buf) THEN buf[i] ELSE <<>>

\* the file position after a readline at line number i
Advance(buf, i) == IF i <= Len(buf) THEN i + 1 ELSE i

\* out_file.write(s), s holding at most one newline, at its end
Write(out, s) ==
    IF s = <<>> THEN out
    ELSE IF out # <<>> /\ out[Len(out)][Len(out[Len(out)])] # NL
         THEN [out EXCEPT ![Len(out)] = @ \o s]
         ELSE Append(out, s)

RECURSIVE Flatten(_)
\* the content of a file as one string
Flatten(f) == IF f = <<>> THEN <<>> ELSE Head(f) \o Flatten(Tail(f))

\* s occurs in line as a substring
Contains(line, s) ==
    \E i \in 0..(Len(line) - Len(s)) :
        \A j \in 1..Len(s) : line[i + j] = s[j]

(***************************************************************************)
(* xml.etree.ElementTree: parse and findall, as read_param_in_xml_file     *)
(* uses them.  The parser runs over the content of the file, keeping the   *)
(* stack of open elements; it collects the property elements that are      *)
(* children of the root, each with the texts of its name children and the  *)
(* texts and positions of its value children.                              *)
(***************************************************************************)
ParseInit ==
    [ok |-> TRUE, stack |-> <<>>, roots |-> 0, inComment |-> FALSE,
     props |-> <<>>, names |-> <<>>, values |-> <<>>,
     txt |-> <<>>, from |-> 0]

\* the parser is inside a name or value child of a property child of the root
InLeaf(st) ==
    /\ Len(st.stack) = 3
    /\ st.stack[2] = OpenProp
    /\ st.stack[3] \in {OpenName, OpenValue}

ParseStep(st, t, i) ==
    IF ~st.ok THEN st
    ELSE IF st.inComment
    THEN (IF t = CloseComment THEN [st EXCEPT !.inComment = FALSE] ELSE st)
    ELSE IF t = OpenComment THEN [st EXCEPT !.inComment = TRUE]
    ELSE IF t \in OpenTags
    THEN (IF st.stack = <<>>
          THEN (IF st.roots = 0
                THEN [st EXCEPT !.stack = <<t>>, !.roots = 1]
                ELSE [st EXCEPT !.ok = FALSE])
          ELSE IF Len(st.stack) = 1 /\ t = OpenProp
          THEN [st EXCEPT !.stack = Append(@, t),
                          !.names = <<>>, !.values = <<>>]
          ELSE IF Len(st.stack) = 2 /\ st.stack[2] = OpenProp
                  /\ t \in {OpenName, OpenValue}
          THEN [st EXCEPT !.stack = Append(@, t), !.txt = <<>>, !.from = i]
          ELSE [st EXCEPT !.stack = Append(@, t)])
    ELSE IF t = EmptyRoot
    THEN (IF st.stack = <<>>
          THEN (IF st.roots = 0
                THEN [st EXCEPT !.roots = 1]
                ELSE [st EXCEPT !.ok = FALSE])
          ELSE st)
    ELSE IF t \in CloseTags
    THEN (IF st.stack = <<>> \/ CloseOf(st.stack[Len(st.stack)]) # t
          THEN [st EXCEPT !.ok = FALSE]
          ELSE IF InLeaf(st) /\ t = CloseName
          THEN [st EXCEPT !.stack = SubSeq(@, 1, 2),
                          !.names = Append(@, st.txt)]
          ELSE IF InLeaf(st) /\ t = CloseValue
          THEN [st EXCEPT !.stack = SubSeq(@, 1, 2),
                          !.values = Append(@, [text |-> st.txt,
                                                from |-> st.from,
                                                to |-> i])]
          ELSE IF Len(st.stack) = 2 /\ t = CloseProp
          THEN [st EXCEPT !.stack = SubSeq(@, 1, 1),
                          !.props = Append(@, [names |-> st.names,
                                               values |-> st.values])]
          ELSE [st EXCEPT !.stack = SubSeq(@, 1, Len(@) - 1)])
    ELSE IF t \in Spaces
    THEN (IF InLeaf(st) THEN [st EXCEPT !.txt = Append(@, t)] ELSE st)
    ELSE IF st.stack = <<>> THEN [st EXCEPT !.ok = FALSE]
    ELSE IF InLeaf(st) THEN [st EXCEPT !.txt = Append(@, t)]
    ELSE st

RECURSIVE ParseFrom(_, _, _)
ParseFrom(st, s, i) ==
    IF i > Len(s) THEN st ELSE ParseFrom(ParseStep(st, s[i], i), s, i + 1)

\* ET.parse(f): ok is FALSE when the parser raises ParseError
Parse(f) ==
    LET st == ParseFrom(ParseInit, Flatten(f), 1)
    IN  [ok |-> st.ok /\ st.stack = <<>> /\ st.roots = 1 /\ ~st.inComment,
         props |-> st.props]

RECURSIVE FindAll(_, _)
\* root.findall("./property/[name='%s']/value" % name), on the properties
FindAll(props, name) ==
    IF props = <<>> THEN <<>>
    ELSE (IF \E k \in 1..Len(Head(props).names) : Head(props).names[k] = name
          THEN Head(props).values ELSE <<>>)
         \o FindAll(Tail(props), name)

(***************************************************************************)
(* Results of the read operations.  status is "ok" (a string, in v),       *)
(* "none" (None, the default), or the name of the exception raised.        *)
(***************************************************************************)
Str(v) == [status |-> "ok", v |-> v]
None == [status |-> "none", v |-> <<>>]
Raise(e) == [status |-> e, v |-> <<>>]

\* the truth value Python gives to a result used as a condition
Truthy(r) == r.status = "ok" /\ r.v # <<>>

read_param_in_xml_file(f, name) ==
    LET tree == Parse(f)
        res == FindAll(tree.props, name)
    IN  IF ~tree.ok THEN Raise("ParseError")
        ELSE IF res # <<>>
        THEN (IF res[1].text = <<>> THEN None ELSE Str(res[1].text))
        ELSE None

\* __replace_line(line, value): the regular expression's first group is
\* greedy, so the last <value>text</value> of the line is the one replaced;
\* a line without one is returned as it is
replace_line(line, value) ==
    LET Matches(j) ==
            /\ line[j] = OpenValue
            /\ \E k \in (j + 1)..Len(line) :
                  /\ line[k] = CloseValue
                  /\ \A m \in (j + 1)..(k - 1) : ~HasLt(line[m])
        js == {j \in 1..Len(line) : Matches(j)}
    IN  IF js = {} THEN line
        ELSE LET j == CHOOSE x \in js : \A y \in js : y <= x
                 k == CHOOSE x \in (j + 1)..Len(line) :
                         /\ line[x] = CloseValue
                         /\ \A m \in (j + 1)..(x - 1) : ~HasLt(line[m])
             IN  SubSeq(line, 1, j) \o value \o SubSeq(line, k, Len(line))

\* "<name>" + name + "</name>"
NameTag(name) == <<OpenName>> \o name \o <<CloseName>>

\* the line written for a property that is created (lines 307-308)
PropertyLine(name, value) ==
    <<SP, SP, OpenProp>> \o NameTag(name) \o <<OpenValue>> \o value
        \o <<CloseValue, CloseProp, NL>>

(***************************************************************************)
(* The flat format.                                                        *)
(***************************************************************************)
RECURSIVE SplitFrom(_, _, _, _)
\* line.split(): the words of the line, cut at runs of whitespace
SplitFrom(line, i, word, acc) ==
    IF i > Len(line)
    THEN (IF word = <<>> THEN acc ELSE Append(acc, word))
    ELSE IF line[i] \in Spaces
    THEN SplitFrom(line, i + 1, <<>>,
                   IF word = <<>> THEN acc ELSE Append(acc, word))
    ELSE SplitFrom(line, i + 1, Append(word, line[i]), acc)

Split(line) == SplitFrom(line, 1, <<>>, <<>>)

\* __parse_props_line(line) followed by the caller's unpacking
\* (pname, pvalue) = ..., which raises ValueError unless two items are
\* returned; None is <<>>, which no word is
parse_props_line(line) ==
    IF line # <<>> /\ line[1] = HASH
    THEN [err |-> FALSE, pname |-> <<>>, pvalue |-> <<>>]
    ELSE LET parts == Split(line)
         IN  IF parts = <<>>
             THEN [err |-> FALSE, pname |-> <<>>, pvalue |-> <<>>]
             ELSE IF Len(parts) = 2
             THEN [err |-> FALSE, pname |-> parts[1], pvalue |-> parts[2]]
             ELSE [err |-> TRUE, pname |-> <<>>, pvalue |-> <<>>]

RECURSIVE ReadPropsFrom(_, _, _)
ReadPropsFrom(f, i, name) ==
    IF i > Len(f) THEN None
    ELSE LET p == parse_props_line(f[i])
         IN  IF p.err THEN Raise("ValueError")
             ELSE IF name # <<>> /\ p.pname = name THEN Str(p.pvalue)
             ELSE ReadPropsFrom(f, i + 1, name)

read_param_in_props_file(f, name) == ReadPropsFrom(f, 1, name)

\* the line written for a key of the flat format (lines 375 and 392)
PropsLine(name, value) == name \o <<TAB>> \o value \o <<NL>>

(***************************************************************************)
(* The inputs: keys, values, and the files the calls are made on.          *)
(***************************************************************************)
KX == <<"x">>
KY == <<"y">>
Names == {KX, KY}

ValPool == << <<"7">>, <<>>, <<"7", SP, "8">>, <<"8">> >>
Values == {ValPool[i] : i \in 1..NumVals}

\* create_xml_file(f): the content it writes
create_xml_file == << <<OpenRoot, NL>>, <<CloseRoot>> >>

\* the root tags on one line, and a self-closed root
OneLineRoot == << <<OpenRoot, CloseRoot>> >>
SelfClosedRoot == << <<EmptyRoot, NL>> >>

Property(name, value) ==
    <<OpenProp>> \o NameTag(name) \o <<OpenValue>> \o value
        \o <<CloseValue, CloseProp>>

\* the blocks of lines an XML fixture is made of
XmlBlocks ==
    { \* a property on one line, as replace_in_xml_file writes it
      << PropertyLine(KX, <<"1">>) >>,
      << PropertyLine(KY, <<"2">>) >>,
      \* one tag per line, the value on the line after the name
      << <<OpenProp, NL>>, NameTag(KX) \o <<NL>>,
         <<OpenValue, "1", CloseValue, NL>>, <<CloseProp, NL>> >>,
      \* the value two lines after the name
      << <<OpenProp>> \o NameTag(KX) \o <<NL>>, <<NL>>,
         <<OpenValue, "1", CloseValue, CloseProp, NL>> >>,
      \* the value on the line before the name
      << <<OpenProp, OpenValue, "1", CloseValue, NL>>,
         NameTag(KX) \o <<CloseProp, NL>> >>,
      \* two properties on one line
      << Property(KX, <<"1">>) \o Property(KY, <<"2">>) \o <<NL>> >>,
      << Property(KY, <<"2">>) \o Property(KX, <<"1">>) \o <<NL>> >>,
      \* a property that is commented out
      << <<OpenComment, SP>> \o Property(KX, <<"0">>)
            \o <<SP, CloseComment, NL>> >>,
      \* an empty value
      << Property(KX, <<>>) \o <<NL>> >>,
      \* a comment inside the name element
      << <<OpenProp, OpenName, OpenComment, CloseComment>> \o KX
            \o <<CloseName, OpenValue, "1", CloseValue, CloseProp, NL>> >> }

\* the lines a flat fixture is made of
FlatLines ==
    { KX \o <<SP, "1", NL>>,
      KX \o <<TAB, "2", NL>>,
      KY \o <<SP, "2", NL>>,
      <<HASH, SP>> \o KX \o <<SP, "0", NL>>,
      <<NL>>,
      KX \o <<NL>>,
      KX \o <<SP, "1", SP, "2", NL>> }

\* the sequences of at most n elements of S
SeqsUpTo(S, n) == UNION {[1..m -> S] : m \in 0..n}

\* a text file without the newline at the end of its last line
Chomp(f) ==
    IF f # <<>> /\ Len(f[Len(f)]) > 1
    THEN [f EXCEPT ![Len(f)] = SubSeq(@, 1, Len(@) - 1)]
    ELSE f

XmlDocs ==
    LET bodies == {Flatten(b) : b \in SeqsUpTo(XmlBlocks, MaxBlocks)}
    IN  {<<create_xml_file[1]>> \o b \o <<create_xml_file[2]>> : b \in bodies}
        \cup {<<create_xml_file[1]>> \o b
                 \o << <<CloseRoot, NL>>,
                       <<OpenComment, SP, "end", SP, CloseComment, NL>> >>
              : b \in bodies}
        \cup {OneLineRoot, SelfClosedRoot}

FlatDocs ==
    LET docs == SeqsUpTo(FlatLines, MaxLines)
    IN  docs \cup {Chomp(f) : f \in docs}

\* the files of the two-caller specification, written by the program itself
ConcXmlDocs ==
    {<<create_xml_file[1]>> \o b \o <<create_xml_file[2]>> :
        b \in SeqsUpTo({PropertyLine(KX, <<"1">>), PropertyLine(KY, <<"2">>)},
                       MaxConcLines)}

ConcFlatDocs ==
    SeqsUpTo({PropsLine(KX, <<"1">>), PropsLine(KY, <<"2">>)}, MaxConcLines)

(***************************************************************************)
(* The callers.  Each caller makes one call; pc is its position in the     *)
(* code.  in_file is the content the caller's reader holds, read when the  *)
(* file is opened (the files are smaller than the reader's buffer);        *)
(* eof_reads is the parity of the number of readline calls that the loops  *)
(* of the call made at the end of the file.                                *)
(***************************************************************************)
Idle ==
    [pc |-> "idle", op |-> "none", name |-> <<>>, value |-> <<>>,
     create |-> FALSE, replace |-> FALSE,
     in_file |-> <<>>, pos |-> 1, line |-> <<>>, eof_reads |-> 0,
     temp_file |-> <<>>, temp_exists |-> FALSE,
     copied |-> FALSE, ret |-> "none", err |-> "none", result |-> None]

Running(p) == p.pc \notin {"idle", "done", "failed", "readdone"}

InitOn(docs, P) ==
    /\ fmt \in {"xml", "flat"}
    /\ file \in docs[fmt]
    /\ orig = file
    /\ proc = [w \in P |-> Idle]
    /\ overlap = FALSE
    /\ lastCopier = 0

Init == InitOn([xml |-> XmlDocs, flat |-> FlatDocs], {1})

InitConc == InitOn([xml |-> ConcXmlDocs, flat |-> ConcFlatDocs], {1, 2})

\* the caller w moves to position pc with the local variables upd
Goto(w, p) == proc' = [proc EXCEPT ![w] = p]

\* return value: the files are closed and the local variables dropped
Return(p, r) ==
    [p EXCEPT !.pc = "done", !.ret = r,
              !.in_file = <<>>, !.pos = 1, !.line = <<>>, !.eof_reads = 0]

Fail(p, e) ==
    [p EXCEPT !.pc = "failed", !.err = e,
              !.in_file = <<>>, !.pos = 1, !.line = <<>>, !.eof_reads = 0]

\* open(f) and the first readline
Open(p, f) ==
    [p EXCEPT !.in_file = f, !.line = ReadLine(f, 1), !.pos = Advance(f, 1)]

\* tempfile.mkstemp and open(temp_file, "w")
MkTemp(p) == [p EXCEPT !.temp_file = <<>>, !.temp_exists = TRUE]

\* out_file.write(line); line = in_file.readline()
CopyLine(p) ==
    [p EXCEPT !.temp_file = Write(@, p.line),
              !.line = ReadLine(p.in_file, p.pos),
              !.pos = Advance(p.in_file, p.pos),
              !.eof_reads = IF p.pos > Len(p.in_file) THEN 1 - @ ELSE @]

\* a copy made before the last line written reached the scratch file
copyfile_unflushed(temp) == SubSeq(temp, 1, Len(temp) - 1)

\* shutil.copyfile(temp_file, f): the new content of f
copyfile(temp) == temp

(***************************************************************************)
(* replace_in_xml_file                                                     *)
(***************************************************************************)
\* lines 266-269, 295-298, 312-313: the lookup and the choice of the branch
replace_in_xml_file(w) ==
    /\ fmt = "xml"
    /\ proc[w].pc = "idle"
    /\ \E name \in Names, value \in Values,
          create_if_absent \in BOOLEAN, replace_if_present \in BOOLEAN :
          LET current_value == read_param_in_xml_file(file, name)
              p == [proc[w] EXCEPT !.op = "write", !.name = name,
                                   !.value = value,
                                   !.create = create_if_absent,
                                   !.replace = replace_if_present]
          IN  Goto(w, IF current_value.status = "ParseError"
                      THEN Fail(p, "ParseError")
                      ELSE IF Truthy(current_value)
                      THEN (IF replace_if_present
                            THEN [p EXCEPT !.pc = "x_open_replace"]
                            ELSE Return(p, "false"))
                      ELSE (IF create_if_absent
                            THEN [p EXCEPT !.pc = "x_open_create"]
                            ELSE Return(p, "false")))
    /\ overlap' = (overlap \/ \E o \in DOMAIN proc : o # w /\ Running(proc[o]))
    /\ UNCHANGED <<fmt, file, orig, lastCopier>>

\* lines 270-274
XmlOpenReplace(w) ==
    /\ proc[w].pc = "x_open_replace"
    /\ Goto(w, [Open(MkTemp(proc[w]), file) EXCEPT !.pc = "x_search"])
    /\ UNCHANGED <<fmt, file, orig, overlap, lastCopier>>

\* lines 275-277: one iteration of the search for the name tag
XmlSearch(w) ==
    /\ proc[w].pc = "x_search"
    /\ ~Contains(proc[w].line, NameTag(proc[w].name))
    /\ Goto(w, CopyLine(proc[w]))
    /\ UNCHANGED <<fmt, file, orig, overlap, lastCopier>>

\* lines 280-285 and 290, on the line p.line that holds the name tag
XmlReplaceValue(p) ==
    IF \E i \in 1..Len(p.line) : p.line[i] = OpenValue
    THEN [p EXCEPT !.temp_file = Write(@, replace_line(p.line, p.value)),
                   !.line = ReadLine(p.in_file, p.pos),
                   !.pos = Advance(p.in_file, p.pos)]
    ELSE LET q == CopyLine(p)
         IN  [q EXCEPT !.temp_file = Write(@, replace_line(q.line, p.value)),
                       !.line = ReadLine(q.in_file, q.pos),
                       !.pos = Advance(q.in_file, q.pos)]

XmlReplace(w) ==
    /\ proc[w].pc = "x_search"
    /\ Contains(proc[w].line, NameTag(proc[w].name))
    /\ Goto(w, [XmlReplaceValue(proc[w]) EXCEPT !.pc = "x_rest"])
    /\ UNCHANGED <<fmt, file, orig, overlap, lastCopier>>

\* lines 291-293: one iteration of the copy of the rest, or its end
XmlRest(w) ==
    /\ proc[w].pc = "x_rest"
    /\ Goto(w, IF proc[w].line # <<>>
               THEN CopyLine(proc[w])
               ELSE [proc[w] EXCEPT !.pc = "x_copy", !.in_file = <<>>,
                                    !.pos = 1, !.eof_reads = 0])
    /\ UNCHANGED <<fmt, file, orig, overlap, lastCopier>>

\* lines 299-303
XmlOpenCreate(w) ==
    /\ proc[w].pc = "x_open_create"
    /\ Goto(w, [Open(MkTemp(proc[w]), file) EXCEPT !.pc = "x_search_end"])
    /\ UNCHANGED <<fmt, file, orig, overlap, lastCopier>>

\* lines 304-306: one iteration of the search for the closing root tag
XmlSearchEnd(w) ==
    /\ proc[w].pc = "x_search_end"
    /\ ~Contains(proc[w].line, <<CloseRoot>>)
    /\ Goto(w, CopyLine(proc[w]))
    /\ UNCHANGED <<fmt, file, orig, overlap, lastCopier>>

\* the property written after the closing line instead of before it
XmlInsertAfterClosing(p) ==
    [p EXCEPT !.temp_file = Write(Write(@, p.line),
                                  PropertyLine(p.name, p.value)),
              !.in_file = <<>>, !.pos = 1, !.line = <<>>, !.eof_reads = 0]

\* lines 307-309, on the line p.line that holds the closing root tag
XmlInsertProperty(p) ==
    [p EXCEPT !.temp_file = Write(Write(@, PropertyLine(p.name, p.value)),
                                  p.line),
              !.in_file = <<>>, !.pos = 1, !.line = <<>>, !.eof_reads = 0]

XmlInsert(w) ==
    /\ proc[w].pc = "x_search_end"
    /\ Contains(proc[w].line, <<CloseRoot>>)
    /\ Goto(w, [XmlInsertProperty(proc[w]) EXCEPT !.pc = "x_copy"])
    /\ UNCHANGED <<fmt, file, orig, overlap, lastCopier>>

\* line 315
XmlCopy(w) ==
    /\ proc[w].pc = "x_copy"
    /\ file' = copyfile(proc[w].temp_file)
    /\ lastCopier' = w
    /\ Goto(w, [proc[w] EXCEPT !.pc = "x_remove", !.copied = TRUE])
    /\ UNCHANGED <<fmt, orig, overlap>>

\* os.remove(temp_file)
remove(p) == [p EXCEPT !.temp_file = <<>>, !.temp_exists = FALSE]

\* lines 316-317
XmlRemove(w) ==
    /\ proc[w].pc = "x_remove"
    /\ Goto(w, Return(remove(proc[w]), "true"))
    /\ UNCHANGED <<fmt, file, orig, overlap, lastCopier>>

(***************************************************************************)
(* write_in_props_file                                                     *)
(***************************************************************************)
\* lines 359-362, 387-390, 395-396: the lookup and the choice of the branch
write_in_props_file(w) ==
    /\ fmt = "flat"
    /\ proc[w].pc = "idle"
    /\ \E name \in Names, value \in Values,
          create_if_absent \in BOOLEAN, override \in BOOLEAN :
          LET current_value == read_param_in_props_file(file, name)
              p == [proc[w] EXCEPT !.op = "write", !.name = name,
                                   !.value = value,
                                   !.create = create_if_absent,
                                   !.replace = override]
          IN  Goto(w, IF current_value.status = "ValueError"
                      THEN Fail(p, "ValueError")
                      ELSE IF Truthy(current_value)
                      THEN (IF override
                            THEN [p EXCEPT !.pc = "p_open"]
                            ELSE Return(p, "false"))
                      ELSE (IF create_if_absent
                            THEN [p EXCEPT !.pc = "p_append"]
                            ELSE Return(p, "false")))
    /\ overlap' = (overlap \/ \E o \in DOMAIN proc : o # w /\ Running(proc[o]))
    /\ UNCHANGED <<fmt, file, orig, lastCopier>>

\* lines 363-367
PropsOpen(w) ==
    /\ proc[w].pc = "p_open"
    /\ Goto(w, [Open(MkTemp(proc[w]), file) EXCEPT !.pc = "p_search"])
    /\ UNCHANGED <<fmt, file, orig, overlap, lastCopier>>

\* lines 368-372: one iteration of the search for the key; the unpacking of
\* a line that is not of two words raises ValueError
PropsSearch(w) ==
    /\ proc[w].pc = "p_search"
    /\ LET parsed == parse_props_line(proc[w].line)
       IN  /\ parsed.err \/ parsed.pname = <<>>
                \/ parsed.pname # proc[w].name
           /\ Goto(w, IF parsed.err THEN Fail(proc[w], "ValueError")
                      ELSE CopyLine(proc[w]))
    /\ UNCHANGED <<fmt, file, orig, overlap, lastCopier>>

\* the new line written without its newline
PropsReplaceNoNewline(p) ==
    [p EXCEPT !.temp_file =
                  Write(@, parse_props_line(p.line).pname \o <<TAB>>
                              \o p.value),
              !.line = ReadLine(p.in_file, p.pos),
              !.pos = Advance(p.in_file, p.pos)]

\* lines 375 and 378, on the line p.line whose key is the name
PropsReplaceLine(p) ==
    [p EXCEPT !.temp_file =
                  Write(@, PropsLine(parse_props_line(p.line).pname, p.value)),
              !.line = ReadLine(p.in_file, p.pos),
              !.pos = Advance(p.in_file, p.pos)]

PropsReplace(w) ==
    /\ proc[w].pc = "p_search"
    /\ LET parsed == parse_props_line(proc[w].line)
       IN  ~parsed.err /\ parsed.pname # <<>> /\ parsed.pname = proc[w].name
    /\ Goto(w, [PropsReplaceLine(proc[w]) EXCEPT !.pc = "p_rest"])
    /\ UNCHANGED <<fmt, file, orig, overlap, lastCopier>>

\* lines 379-381: one iteration of the copy of the rest, or its end
PropsRest(w) ==
    /\ proc[w].pc = "p_rest"
    /\ Goto(w, IF proc[w].line # <<>>
               THEN CopyLine(proc[w])
               ELSE [proc[w] EXCEPT !.pc = "p_copy", !.in_file = <<>>,
                                    !.pos = 1, !.eof_reads = 0])
    /\ UNCHANGED <<fmt, file, orig, overlap, lastCopier>>

\* line 383
PropsCopy(w) ==
    /\ proc[w].pc = "p_copy"
    /\ file' = copyfile(proc[w].temp_file)
    /\ lastCopier' = w
    /\ Goto(w, [proc[w] EXCEPT !.pc = "p_remove", !.copied = TRUE])
    /\ UNCHANGED <<fmt, orig, overlap>>

\* lines 384-385
PropsRemove(w) ==
    /\ proc[w].pc = "p_remove"
    /\ Goto(w, Return(remove(proc[w]), "true"))
    /\ UNCHANGED <<fmt, file, orig, overlap, lastCopier>>

\* lines 391-393: the line is appended to the file itself
PropsAppend(w) ==
    /\ proc[w].pc = "p_append"
    /\ file' = Write(file, PropsLine(proc[w].name, proc[w].value))
    /\ Goto(w, Return(proc[w], "true"))
    /\ UNCHANGED <<fmt, orig, overlap, lastCopier>>

(***************************************************************************)
(* The read operations, called on their own or after a write that          *)
(* returned, and the failure of an operation on the scratch file.          *)
(***************************************************************************)
read_one(f, name) ==
    IF fmt = "xml" THEN read_param_in_xml_file(f, name)
    ELSE read_param_in_props_file(f, name)

ReadOne(w) ==
    /\ proc[w].pc \in {"idle", "done"}
    /\ \E name \in Names :
          /\ proc[w].pc = "done" => name = proc[w].name
          /\ Goto(w, [proc[w] EXCEPT !.pc = "readdone", !.name = name,
                                     !.op = IF @ = "none" THEN "read" ELSE @,
                                     !.result = read_one(file, name)])
    /\ UNCHANGED <<fmt, file, orig, overlap, lastCopier>>

Building == {"x_search", "x_rest", "x_search_end", "p_search", "p_rest"}
Rewriting == Building \cup {"x_copy", "x_remove", "p_copy", "p_remove"}

\* an IOError raised by mkstemp, open, write, copyfile or remove
IOError(w) ==
    /\ proc[w].pc \in Rewriting
    /\ Goto(w, Fail(proc[w], "IOError"))
    /\ UNCHANGED <<fmt, file, orig, overlap, lastCopier>>

\* the steps of a call after its lookup
RewriteStep(w) ==
    \/ XmlOpenReplace(w)
    \/ XmlSearch(w)
    \/ XmlReplace(w)
    \/ XmlRest(w)
    \/ XmlOpenCreate(w)
    \/ XmlSearchEnd(w)
    \/ XmlInsert(w)
    \/ XmlCopy(w)
    \/ XmlRemove(w)
    \/ PropsOpen(w)
    \/ PropsSearch(w)
    \/ PropsReplace(w)
    \/ PropsRest(w)
    \/ PropsCopy(w)
    \/ PropsRemove(w)
    \/ PropsAppend(w)

WriteStep(w) ==
    \/ replace_in_xml_file(w)
    \/ write_in_props_file(w)
    \/ RewriteStep(w)

Next == WriteStep(1) \/ ReadOne(1) \/ IOError(1)

Spec == Init /\ [][Next]_vars

\* one thread runs the call: once the call is made, the steps of its code
\* are taken as long as there is one to take
FairSpec == Spec /\ WF_vars(RewriteStep(1))

NextConc == \E w \in {1, 2} : WriteStep(w)

SpecConc == InitConc /\ [][NextConc]_vars

(***************************************************************************)
(* Vocabulary of the properties.  P1 is the caller of the one-caller       *)
(* specification.                                                          *)
(***************************************************************************)
P1 == proc[1]

\* the call of P1 is over and no IOError was raised
Over == P1.pc \in {"done", "failed", "readdone"} /\ P1.err # "IOError"

\* a comment line, a blank line or a line of a key and a value
PropsLineOk(line) ==
    \/ line[1] = HASH
    \/ Len(Split(line)) \in {0, 2}

FlatWellFormed(f) == \A i \in 1..Len(f) : PropsLineOk(f[i])

\* the line holds a record of the key name
HasKey(line, name) ==
    line[1] # HASH /\ Split(line) # <<>> /\ Split(line)[1] = name

\* no word of the file is the key
KeyAbsent(f, name) ==
    \A i \in 1..Len(f) : \A j \in 1..Len(f[i]) : f[i][j] # name[1]

\* the file holds the key: a property element with this name and a value
\* element (XML), a line with this key (flat)
KeyPresent(f, name) ==
    IF fmt = "xml" THEN Parse(f).ok /\ FindAll(Parse(f).props, name) # <<>>
    ELSE \E i \in 1..Len(f) : HasKey(f[i], name)

WellFormed(f) == IF fmt = "xml" THEN Parse(f).ok ELSE FlatWellFormed(f)

\* the string s with the text between positions from and to replaced
ReplaceBetween(s, from, to, value) ==
    SubSeq(s, 1, from) \o value \o SubSeq(s, to, Len(s))

\* C1: on a well-formed file that does not hold the key K, write_one(K, V,
\* create_if_absent=true) followed by read_one(K) does not fail and
\* returns V.
C1_RoundTrip ==
    (/\ P1.op = "write" /\ P1.create /\ Over
     /\ P1.pc # "done"
     /\ WellFormed(orig) /\ KeyAbsent(orig, P1.name))
    => (P1.pc = "readdone" /\ P1.ret = "true" /\ P1.result = Str(P1.value))

\* C2: when the file holds the key K (its value may be empty), write_one
\* with replace_if_present=false (override=false) returns false and leaves
\* the file as it was, whatever the value and create_if_absent.
C2_NoOp ==
    (/\ P1.op = "write" /\ ~P1.replace /\ Over
     /\ KeyPresent(orig, P1.name))
    => (P1.ret = "false" /\ file = orig)

\* the call of P1 took the branch of lines 270-293 and returned true
XmlReplaced ==
    /\ fmt = "xml" /\ P1.op = "write" /\ P1.replace /\ P1.ret = "true"
    /\ Truthy(read_param_in_xml_file(orig, P1.name))

\* C3: when write_one replaces the value of the key K of an XML file, the
\* new content is the old one with the text between <value> and </value> of
\* K's own property replaced, and nothing else changed.
C3_XmlPreservation ==
    XmlReplaced =>
        LET v == FindAll(Parse(orig).props, P1.name)[1]
        IN  Flatten(file)
              = ReplaceBetween(Flatten(orig), v.from, v.to, P1.value)

\* C4: when write_one(K, V) with replace_if_present=true returns true on a
\* well-formed XML file in which read_one finds a value of K, a following
\* read_one(K) returns V.
C4_XmlReadAfterReplace ==
    (XmlReplaced /\ P1.pc = "readdone") => P1.result = Str(P1.value)

\* C5: write_one with create_if_absent=true for a key absent from an XML
\* file that holds the root tags only (on one line, or as create_xml_file
\* writes them) gives a well-formed file with exactly one property, of the
\* key and the value, nested in the root, the closing line being kept.
C5_XmlCreation ==
    (/\ fmt = "xml" /\ orig \in {OneLineRoot, create_xml_file}
     /\ P1.op = "write" /\ P1.create /\ P1.ret = "true")
    => LET tree == Parse(file)
       IN  /\ tree.ok
           /\ Len(tree.props) = 1
           /\ tree.props[1].names = <<P1.name>>
           /\ Len(tree.props[1].values) = 1
           /\ tree.props[1].values[1].text = P1.value
           /\ file[Len(file)] = orig[Len(orig)]

RECURSIVE FirstValue(_, _, _)
\* the value of the first line of a key and a value whose key is name; the
\* other lines are skipped
FirstValue(f, i, name) ==
    IF i > Len(f) THEN None
    ELSE IF f[i][1] # HASH /\ Len(Split(f[i])) = 2 /\ Split(f[i])[1] = name
    THEN Str(Split(f[i])[2])
    ELSE FirstValue(f, i + 1, name)

\* C6: read_one on a flat file raises no error, whatever the lines of the
\* file, and returns the value of the first line whose key is the name, or
\* the default.
C6_FlatReadSilent ==
    (fmt = "flat" /\ P1.op = "read" /\ P1.pc = "readdone")
    => (/\ P1.result.status # "ValueError"
        /\ P1.result = FirstValue(file, 1, P1.name))

\* the call of P1 is a flat write with override=true on a file of
\* key/value lines, comments and blank lines that holds the key
FlatOverride ==
    /\ fmt = "flat" /\ P1.op = "write" /\ P1.replace
    /\ FlatWellFormed(orig) /\ KeyPresent(orig, P1.name)

\* C7: when the key K is in a flat file of key/value lines and override is
\* true, write_one(K, V) returns true and the file is the original with the
\* first line of key K replaced by K, a tab, V and a newline, every other
\* line being unchanged.
C7_FlatOverride ==
    (FlatOverride /\ Over)
    => LET first == CHOOSE i \in 1..Len(orig) :
                       /\ HasKey(orig[i], P1.name)
                       /\ \A j \in 1..(i - 1) : ~HasKey(orig[j], P1.name)
       IN  /\ P1.ret = "true"
           /\ file = [orig EXCEPT ![first] = P1.name \o <<TAB>> \o P1.value
                                                \o <<NL>>]

\* the override replaced the first of two lines of the key, after a
\* comment or a blank line
C7_Witness ==
    /\ FlatOverride /\ P1.pc = "done" /\ P1.ret = "true"
    /\ file # orig
    /\ Len(orig) >= 2
    /\ \E i \in 2..Len(orig) : HasKey(orig[i], P1.name)

\* C8: every call of write_one returns or fails: it does not loop for ever.
C8_Termination ==
    (P1.op = "write") ~> (P1.pc \in {"done", "failed", "readdone"})

\* C9: a rewriting write leaves the file as it was until the scratch file
\* is copied over it (so also when the building of the scratch file fails),
\* the copy gives it the whole content of the scratch file, and after a call
\* that returned true the scratch file does not exist.
C9_WholeFile ==
    /\ [](P1.pc \in Rewriting \ {"x_remove", "p_remove"} => file = orig)
    /\ [](P1.pc = "failed" /\ lastCopier = 0 => file = orig)
    /\ [](P1.pc \in {"x_remove", "p_remove"} => file = P1.temp_file)
    /\ [](P1.ret = "true" => ~P1.temp_exists)
    /\ [][(file' # file /\ P1.pc # "p_append")
            => (/\ P1.pc \in {"x_copy", "p_copy"}
                /\ file = orig
                /\ file' = P1.temp_file)]_vars

\* a rewriting write returned true and changed the file
C9_Witness ==
    /\ P1.pc = "done" /\ P1.ret = "true" /\ lastCopier = 1
    /\ file # orig /\ ~P1.temp_exists

\* both callers made a write that returned true, for two different keys
BothTrue ==
    /\ \A w \in {1, 2} : proc[w].pc = "done" /\ proc[w].ret = "true"
    /\ proc[1].name # proc[2].name

\* the file holds the update of the caller w
HoldsUpdate(w) ==
    IF fmt = "xml"
    THEN LET tree == Parse(file)
             res == FindAll(tree.props, proc[w].name)
         IN  tree.ok /\ res # <<>> /\ res[1].text = proc[w].value
    ELSE \E i \in 1..Len(file) :
            file[i] = proc[w].name \o <<TAB>> \o proc[w].value \o <<NL>>

\* C10: when two calls of write_one for different keys that both return
\* true run one after the other, the file holds both updates; when they
\* overlap, the file holds the update of the last one to copy its scratch
\* file (and that of the other one can be lost: C10_LostUpdate).
C10_SerialKeepsBoth ==
    BothTrue =>
        /\ ~overlap => (HoldsUpdate(1) /\ HoldsUpdate(2))
        /\ lastCopier # 0 => HoldsUpdate(lastCopier)

\* both calls copied their scratch file and returned true, and the file
\* holds the update of the last copier only
C10_LostUpdate ==
    /\ BothTrue /\ overlap /\ lastCopier # 0
    /\ proc[1].copied /\ proc[2].copied
    /\ HoldsUpdate(lastCopier)
    /\ ~HoldsUpdate(3 - lastCopier)

====
